---- MODULE Spec2Model ----
(***************************************************************************)
(* Shape, indexing and edge-convention model of librosa/__init__.py:       *)
(* stft, istft, melfb, melspectrogram, logamplitude, feature_sync,         *)
(* autocorrelate and localmax.  The code is Python 2: "/" on two ints is   *)
(* floor division, which is \div here.                                     *)
(***************************************************************************)
EXTENDS Integers, Sequences, FiniteSets, TLC

\* ---------------------------------------------------------------- bounds
MaxSamples == 6
MaxFft == 4
MaxHop == 3
MaxCols == 3
MaxBounds == 3
MaxLen == 3
MaxFilts == 2

\* Python's None for an optional integer argument (all real values are >= 0)
None == 0 - 1

\* --------------------------------------------------------------- helpers
Min(a, b) == IF a < b THEN a ELSE b
Max(a, b) == IF a > b THEN a ELSE b

\* Python slice seq[lo:hi] on a sequence of length n: the index range
\* actually read, after negative indices wrap and both ends are clipped.
SliceIndex(i, n) == IF i < 0 THEN Max(i + n, 0) ELSE Min(i, n)
SliceLo(lo, n) == SliceIndex(lo, n)
SliceHi(lo, hi, n) == Max(SliceIndex(lo, n), SliceIndex(hi, n))

\* All sequences over S of length lo..hi
SeqsOf(S, lo, hi) == UNION {[1..k -> S] : k \in lo..hi}

\* ------------------------------------------------------------------ stft
\* line 109
NumSpecbins(nfft) == 1 + nfft \div 2

\* variant: counts a partial last frame
NumFramesCeil(N, nfft, hop) == 1 + (N - nfft + hop - 1) \div hop
\* line 110 (hop # 0)
NumFrames(N, nfft, hop) == 1 + (N - nfft) \div hop

\* lines 94-96
DefaultHannW(hw, nfft) == IF hw = None THEN nfft ELSE hw

\* lines 105-107
DefaultHop(hop, nfft) == IF hop = None THEN nfft \div 2 ELSE hop

\* pad(), lines 464-466: the window does not fit the pad length
PadFails(d, d_pad) == d > d_pad

\* lines 98-102: building the window raises
WindowFails(hw, nfft) == hw # 0 /\ PadFails(hw, nfft)

\* line 116
FrameStart(i, hop) == i * hop

\* line 117: numpy broadcasting of window (length nfft) with the slice
Broadcasts(a, b) == a = b \/ a = 1 \/ b = 1

\* line 113: numpy.empty((n_specbins, n_frames)) is a 2-d ndarray
StftNdim == 2

\* ----------------------------------------------------------------- istft
\* lines 144-146
IstftDefaultNfft(rows) == 2 * (rows - 1)

\* lines 163-165: int(n_fft / 2.0), n_fft >= 0
IstftDefaultHop(hop, nfft) == IF hop = None THEN nfft \div 2 ELSE hop

\* line 167
XLength(nfft, n, hop) == nfft + (n - 1) * hop

\* line 171: d[:, j] with an integer j drops one dimension
ColumnNdim(nd) == nd - 1

\* lines 172-175: concatenate along axis 0 and ifft keep the dimensions
PxNdim(nd) == ColumnNdim(nd)

\* line 176: px[:, 0] needs two dimensions
IndexTwoFails(nd) == nd < 2

\* ----------------------------------------------------------------- melfb
\* variant: allocated at the number of non-negative frequency bins
MelfbShapeTrimmed(nf, nfft) == <<nf, 1 + nfft \div 2>>
\* lines 326, 353: wts, and numpy.dot(numpy.diag(enorm), wts)
MelfbShape(nf, nfft) == <<nf, nfft>>

\* line 329: len(fftfreqs)
NumFftFreqs(nfft) == 1 + nfft \div 2

\* line 347: columns of wts[i, :(1 + nfft/2)]
MelfbColumns(nfft) ==
    {c \in 0..(nfft - 1) : SliceLo(0, nfft) <= c /\ c < SliceHi(0, 1 + nfft \div 2, nfft)}

\* line 381: columns of M[:, :(window_length / 2 + 1)]
TrimmedCols(cols, wl) == SliceHi(0, wl \div 2 + 1, cols) - SliceLo(0, cols)

\* ---------------------------------------------------------- logamplitude
\* An amplitude is <<sgn, e>>, standing for sgn * 10^e (sgn = 0: zero).
\* line 387: amin = 1e-10
AminExp == 0 - 10
\* line 399
SCALE == 20

\* line 400: log10(maximum(amin, abs(S))) of one entry
Log10Floor(a) == IF a[1] = 0 THEN AminExp ELSE Max(AminExp, a[2])
Decibels(a) == SCALE * Log10Floor(a)

\* variant: no floor
ClampNever(d, thr) == d
\* lines 402-404; gain_threshold is <<>> for None, <<t>> otherwise
Clamp(d, thr) == IF thr # <<>> /\ d < thr[1] THEN thr[1] ELSE d

\* ---------------------------------------------------------- feature_sync
Range(s) == {s[k] : k \in DOMAIN s}

RECURSIVE SortSet(_)
SortSet(S) ==
    IF S = {} THEN <<>>
    ELSE LET m == CHOOSE a \in S : \A b \in S : a <= b
         IN  <<m>> \o SortSet(S \ {m})

RECURSIVE Insert(_, _)
Insert(v, s) ==
    IF s = <<>> THEN <<v>>
    ELSE IF v <= Head(s) THEN <<v>> \o s
    ELSE <<Head(s)>> \o Insert(v, Tail(s))

RECURSIVE SortedSeq(_)
SortedSeq(s) == IF s = <<>> THEN <<>> ELSE Insert(Head(s), SortedSeq(Tail(s)))

\* variant: the leading 0 is not added
WithBoundsNoZero(f, t) == f \o <<t>>
\* line 441: numpy.concatenate(([0], F, [X.shape[1]]))
WithBounds(f, t) == <<0>> \o f \o <<t>>

\* variant: sorts only
UniqueKeepsDuplicates(s) == SortedSeq(s)
\* line 441: numpy.unique sorts and drops duplicates
Unique(s) == SortSet(Range(s))

\* line 448: columns of X[:, lb:ub]
SegmentColumns(lo, hi, t) ==
    {c \in 0..(t - 1) : SliceLo(lo, t) <= c /\ c < SliceHi(lo, hi, t)}

\* --------------------------------------------------------- autocorrelate
Reverse(s) == [k \in 1..Len(s) |-> s[Len(s) + 1 - k]]

RECURSIVE SumTo(_, _)
SumTo(f, n) == IF n = 0 THEN 0 ELSE f[n] + SumTo(f, n - 1)

\* line 492: fftconvolve(a, b, mode='full') on integer data, exactly
Convolve(a, b) ==
    [m \in 1..(Len(a) + Len(b) - 1) |->
        SumTo([j \in 1..Len(a) |->
                 IF m + 1 - j \in 1..Len(b) THEN a[j] * b[m + 1 - j] ELSE 0],
              Len(a))]

\* variant: the middle rounded up
HalfStartRoundedUp(n) == (n + 1) \div 2
\* line 494: result[len(result)/2:]
HalfStart(n) == n \div 2
SliceFrom(s, k) == SubSeq(s, SliceIndex(k, Len(s)) + 1, Len(s))

\* lines 495-497: result[:max_size]
SliceTo(s, k) == SubSeq(s, 1, SliceIndex(k, Len(s)))
Truncate(s, ms) == IF ms = None THEN s ELSE SliceTo(s, ms)

\* -------------------------------------------------------------- localmax
\* line 505: numpy.hstack([x[0], x[:-1]]) and numpy.hstack([x[1:], x[-1]])
LeftShifted(s) == <<s[1]>> \o SubSeq(s, 1, Len(s) - 1)
RightShifted(s) == SubSeq(s, 2, Len(s)) \o <<s[Len(s)]>>

\* variants: the two comparisons with their strictness swapped
AboveLeftOrEqual(a, b) == a >= b
AboveRightStrict(a, b) == a > b
\* line 505: x > left, x >= right
AboveLeft(a, b) == a > b
AboveRight(a, b) == a >= b

VARIABLES
    fn,             \* the function called
    pc,             \* position in it: "start", a loop label, "done", "error"
    err,            \* the exception raised, "" if none
    num_samples,    \* stft: len(y)
    n_fft,          \* stft: n_fft; melfb: nfft; melspectrogram: window_length
    hann_w,         \* stft: hann_w
    hop_length,     \* stft/istft: hop_length, then its effective value
    n_specbins,     \* stft: rows of D
    n_frames,       \* stft: columns of D
    i,              \* loop counter
    frames,         \* stft: per frame, <<first index read, one past the last>>
    D_shape,        \* shape of the matrix built, <<rows, columns>>
    ist_n_fft,      \* istft: n_fft
    ist_hop,        \* istft: hop_length, effective
    x_length,       \* istft: length of the output buffer
    x,              \* localmax/autocorrelate: x; logamplitude: entries of S
    out,            \* their output
    max_size,       \* autocorrelate: max_size
    gain_threshold, \* logamplitude: gain_threshold, <<>> for None
    T,              \* feature_sync: X.shape[1]
    F,              \* feature_sync: F
    F_in,           \* feature_sync: F as it was passed in
    lb,             \* feature_sync: lower bound of the next segment
    segs,           \* feature_sync: segments aggregated, <<lb, ub>>
    sr,             \* melfb/melspectrogram: sampling rate
    nfilts,         \* melfb: nfilts; melspectrogram: mel_channels
    wts_cols,       \* melfb: columns of wts that were assigned
    M_shape         \* melfb: shape of the filterbank, <<rows, columns>>

vars == <<fn, pc, err, num_samples, n_fft, hann_w, hop_length, n_specbins,
          n_frames, i, frames, D_shape, ist_n_fft, ist_hop, x_length, x,
          out,
          max_size, gain_threshold, T, F, F_in, lb, segs, sr, nfilts,
          wts_cols, M_shape>>

stftArgs == <<num_samples, n_fft, hann_w>>
stftVars == <<n_specbins, n_frames, frames, D_shape>>
istftVars == <<ist_n_fft, ist_hop, x_length>>
seqVars == <<x, out, max_size, gain_threshold>>
syncVars == <<T, F, F_in, lb, segs>>
melVars == <<sr, nfilts, wts_cols, M_shape>>

\* ------------------------------------------------------------ the inputs
SampleValues == {0 - 1, 1, 2, 3}
Amplitudes == {<<0, 0>>, <<1, 0 - 12>>, <<1, 0 - 5>>, <<0 - 1, 0 - 3>>,
               <<1, 0>>, <<0 - 1, 1>>}
Thresholds == {<<>>, <<0 - 80>>, <<0 - 40>>}
SampleRates == {8000, 22050}

NoStft ==
    /\ num_samples = 0 /\ n_fft = 0 /\ hann_w = None /\ hop_length = None
NoSeq == x = <<>> /\ max_size = None /\ gain_threshold = <<>>
NoSync == T = 0 /\ F = <<>>
NoMel == sr = 0 /\ nfilts = 0

InitStft ==
    /\ fn = "stft"
    /\ num_samples \in 0..MaxSamples
    /\ n_fft \in 1..MaxFft
    /\ hann_w \in {None} \cup 0..(MaxFft + 1)
    /\ hop_length \in {None} \cup 1..MaxHop
    /\ NoSeq /\ NoSync /\ NoMel

InitMelspectrogram ==
    /\ fn = "melspectrogram"
    /\ num_samples \in 0..MaxSamples
    /\ n_fft \in 1..MaxFft
    /\ hann_w = n_fft
    /\ hop_length \in 1..MaxHop
    /\ sr \in SampleRates
    /\ nfilts \in 1..MaxFilts
    /\ NoSeq /\ NoSync

InitMelfb ==
    /\ fn = "melfb"
    /\ n_fft \in 1..MaxFft
    /\ sr \in SampleRates
    /\ nfilts \in 0..MaxFilts
    /\ num_samples = 0 /\ hann_w = None /\ hop_length = None
    /\ NoSeq /\ NoSync

InitLogamplitude ==
    /\ fn = "logamplitude"
    /\ x \in SeqsOf(Amplitudes, 0, MaxLen)
    /\ gain_threshold \in Thresholds
    /\ max_size = None
    /\ NoStft /\ NoSync /\ NoMel

InitFeatureSync ==
    /\ fn = "feature_sync"
    /\ T \in 0..MaxCols
    /\ F \in SeqsOf((0 - 1)..(T + 1), 0, MaxBounds)
    /\ NoStft /\ NoSeq /\ NoMel

InitAutocorrelate ==
    /\ fn = "autocorrelate"
    /\ x \in SeqsOf(SampleValues, 1, MaxLen)
    /\ max_size \in {None} \cup 0..(MaxLen + 1)
    /\ gain_threshold = <<>>
    /\ NoStft /\ NoSync /\ NoMel

InitLocalmax ==
    /\ fn = "localmax"
    /\ x \in SeqsOf(SampleValues, 0, MaxLen)
    /\ max_size = None /\ gain_threshold = <<>>
    /\ NoStft /\ NoSync /\ NoMel

Init ==
    /\ \/ InitStft
       \/ InitMelspectrogram
       \/ InitMelfb
       \/ InitLogamplitude
       \/ InitFeatureSync
       \/ InitAutocorrelate
       \/ InitLocalmax
    /\ pc = "start" /\ err = ""
    /\ n_specbins = 0 /\ n_frames = 0 /\ i = 0 /\ frames = <<>>
    /\ D_shape = <<0, 0>> /\ ist_n_fft = 0 /\ ist_hop = None /\ x_length = 0
    /\ out = <<>> /\ F_in = F /\ lb = 0 /\ segs = <<>>
    /\ wts_cols = {} /\ M_shape = <<0, 0>>

Raise(e) == pc' = "error" /\ err' = e

\* ------------------------------------------------------------------ stft
\* stft, lines 92-113: defaults, window, shape, allocation
StftBegin ==
    /\ fn \in {"stft", "melspectrogram"} /\ pc = "start"
    /\ LET hw == DefaultHannW(hann_w, n_fft)
           hop == DefaultHop(hop_length, n_fft)
       IN  /\ hop_length' = hop
           /\ IF WindowFails(hw, n_fft)
              THEN Raise("ValueError") /\ UNCHANGED stftVars
              ELSE IF hop = 0
              THEN Raise("ZeroDivisionError") /\ UNCHANGED stftVars
              ELSE /\ n_specbins' = NumSpecbins(n_fft)
                   /\ n_frames' = NumFrames(num_samples, n_fft, hop)
                   /\ frames' = frames
                   /\ IF n_frames' < 0
                      THEN Raise("ValueError") /\ UNCHANGED D_shape
                      ELSE /\ D_shape' = <<n_specbins', n_frames'>>
                           /\ pc' = "stft_loop" /\ err' = err
    /\ UNCHANGED <<fn, stftArgs, i, istftVars, seqVars, syncVars, melVars>>

\* stft, lines 115-122: one frame
StftFrame ==
    /\ fn \in {"stft", "melspectrogram"} /\ pc = "stft_loop" /\ i < n_frames
    /\ LET b == FrameStart(i, hop_length)
           lo == SliceLo(b, num_samples)
           hi == SliceHi(b, b + n_fft, num_samples)
       IN  IF Broadcasts(n_fft, hi - lo) /\ hi - lo > 0
           THEN /\ frames' = Append(frames, <<lo, hi>>)
                /\ i' = i + 1
                /\ UNCHANGED <<pc, err>>
           ELSE Raise("ValueError") /\ UNCHANGED <<frames, i>>
    /\ UNCHANGED <<fn, stftArgs, hop_length, n_specbins, n_frames, D_shape,
                   istftVars, seqVars, syncVars, melVars>>

\* stft, line 124
StftReturn ==
    /\ fn \in {"stft", "melspectrogram"} /\ pc = "stft_loop" /\ i = n_frames
    /\ pc' = IF fn = "stft" THEN "done" ELSE "mel_filter"
    /\ UNCHANGED <<fn, err, stftArgs, hop_length, i, stftVars, istftVars,
                   seqVars, syncVars, melVars>>

\* ----------------------------------------------------------------- istft
\* istft(stft(y), hop_length=h), h the hop stft ran with or None;
\* lines 141-168: defaults, window, output buffer
IstftBegin ==
    /\ fn = "stft" /\ pc = "done"
    /\ fn' = "istft"
    /\ \E h \in {None, hop_length} :
         LET nf == IstftDefaultNfft(D_shape[1])
             hop == IstftDefaultHop(h, nf)
         IN  /\ ist_n_fft' = nf
             /\ ist_hop' = hop
             /\ x_length' = XLength(nf, D_shape[2], hop)
             /\ i' = 0
             /\ IF x_length' < 0
                THEN Raise("ValueError")
                ELSE IF hop = 0
                THEN Raise("ValueError")
                ELSE pc' = "istft_loop" /\ err' = err
    /\ UNCHANGED <<stftArgs, hop_length, stftVars, seqVars, syncVars, melVars>>

\* istft, lines 170-177: one frame
IstftFrame ==
    /\ fn = "istft" /\ pc = "istft_loop" /\ i < D_shape[2]
    /\ IF IndexTwoFails(PxNdim(StftNdim))
       THEN Raise("IndexError") /\ i' = i
       ELSE i' = i + 1 /\ UNCHANGED <<pc, err>>
    /\ UNCHANGED <<fn, stftArgs, hop_length, stftVars, istftVars, seqVars,
                   syncVars, melVars>>

\* istft, line 179
IstftReturn ==
    /\ fn = "istft" /\ pc = "istft_loop" /\ i = D_shape[2]
    /\ pc' = "done"
    /\ UNCHANGED <<fn, err, stftArgs, hop_length, i, stftVars, istftVars,
                   seqVars, syncVars, melVars>>

\* -------------------------------------------------- melfb, melspectrogram
\* melfb, lines 321-355
Melfb ==
    /\ fn = "melfb" /\ pc = "start"
    /\ IF NumFftFreqs(n_fft) # Cardinality(MelfbColumns(n_fft)) /\ nfilts > 0
       THEN Raise("ValueError") /\ UNCHANGED <<wts_cols, M_shape>>
       ELSE /\ wts_cols' = IF nfilts > 0 THEN MelfbColumns(n_fft) ELSE {}
            /\ M_shape' = MelfbShape(nfilts, n_fft)
            /\ pc' = "done" /\ err' = err
    /\ UNCHANGED <<fn, stftArgs, hop_length, i, stftVars, istftVars, seqVars,
                   syncVars, sr, nfilts>>

\* melspectrogram, lines 377-385: filterbank, trim, product
MelspectrogramFilter ==
    /\ fn = "melspectrogram" /\ pc = "mel_filter"
    /\ LET M == MelfbShape(nfilts, n_fft)
           cols == TrimmedCols(M[2], n_fft)
       IN  /\ wts_cols' = MelfbColumns(n_fft)
           /\ M_shape' = <<M[1], cols>>
           /\ IF cols # D_shape[1]
              THEN Raise("ValueError") /\ UNCHANGED D_shape
              ELSE /\ D_shape' = <<M[1], D_shape[2]>>
                   /\ pc' = "done" /\ err' = err
    /\ UNCHANGED <<fn, stftArgs, hop_length, i, n_specbins, n_frames, frames,
                   istftVars, seqVars, syncVars, sr, nfilts>>

\* ---------------------------------------------------------- logamplitude
\* logamplitude, lines 399-405
Logamplitude ==
    /\ fn = "logamplitude" /\ pc = "start"
    /\ out' = [k \in 1..Len(x) |-> Clamp(Decibels(x[k]), gain_threshold)]
    /\ pc' = "done"
    /\ UNCHANGED <<fn, err, stftArgs, hop_length, i, stftVars, istftVars, x,
                   max_size, gain_threshold, syncVars, melVars>>

\* ---------------------------------------------------------- feature_sync
\* feature_sync, lines 441-445
FeatureSyncBegin ==
    /\ fn = "feature_sync" /\ pc = "start"
    /\ F' = Unique(WithBounds(F, T))
    /\ D_shape' = <<1, Len(F') - 1>>
    /\ lb' = F'[1]
    /\ i' = 0
    /\ pc' = "sync_loop"
    /\ UNCHANGED <<fn, err, stftArgs, hop_length, n_specbins, n_frames,
                   frames, istftVars, seqVars, T, F_in, segs, melVars>>

\* feature_sync, lines 447-450: one segment
FeatureSyncSegment ==
    /\ fn = "feature_sync" /\ pc = "sync_loop" /\ i < Len(F) - 1
    /\ LET ub == F[i + 2]
       IN  /\ segs' = Append(segs, <<lb, ub>>)
           /\ lb' = ub
    /\ i' = i + 1
    /\ UNCHANGED <<fn, pc, err, stftArgs, hop_length, stftVars, istftVars,
                   seqVars, T, F, F_in, melVars>>

\* feature_sync, line 452
FeatureSyncReturn ==
    /\ fn = "feature_sync" /\ pc = "sync_loop" /\ i = Len(F) - 1
    /\ pc' = "done"
    /\ UNCHANGED <<fn, err, stftArgs, hop_length, i, stftVars, istftVars,
                   seqVars, syncVars, melVars>>

\* --------------------------------------------------------- autocorrelate
\* autocorrelate, lines 492-497
Autocorrelate ==
    /\ fn = "autocorrelate" /\ pc = "start"
    /\ LET result == Convolve(x, Reverse(x))
           half == SliceFrom(result, HalfStart(Len(result)))
       IN  out' = Truncate(half, max_size)
    /\ pc' = "done"
    /\ UNCHANGED <<fn, err, stftArgs, hop_length, i, stftVars, istftVars, x,
                   max_size, gain_threshold, syncVars, melVars>>

\* -------------------------------------------------------------- localmax
\* localmax, line 505
Localmax ==
    /\ fn = "localmax" /\ pc = "start"
    /\ IF x = <<>>
       THEN Raise("IndexError") /\ out' = out
       ELSE /\ out' = [k \in 1..Len(x) |->
                         /\ AboveLeft(x[k], LeftShifted(x)[k])
                         /\ AboveRight(x[k], RightShifted(x)[k])]
            /\ pc' = "done" /\ err' = err
    /\ UNCHANGED <<fn, stftArgs, hop_length, i, stftVars, istftVars, x,
                   max_size, gain_threshold, syncVars, melVars>>

Next ==
    \/ StftBegin
    \/ StftFrame
    \/ StftReturn
    \/ IstftBegin
    \/ IstftFrame
    \/ IstftReturn
    \/ Melfb
    \/ MelspectrogramFilter
    \/ Logamplitude
    \/ FeatureSyncBegin
    \/ FeatureSyncSegment
    \/ FeatureSyncReturn
    \/ Autocorrelate
    \/ Localmax

Spec == Init /\ [][Next]_vars

\* =================================================================== stft
\* C1: with N >= n_fft, n_fft >= 1, hop >= 1 (and a window that fits), stft
\* raises nothing, its matrix has floor(n_fft/2) + 1 rows and
\* floor((N - n_fft)/hop) + 1 columns, and frame k reads exactly the n_fft
\* samples [k*hop, k*hop + n_fft), all of them inside the signal.
C1_StftShapeAndFrames ==
    (/\ fn = "stft" /\ pc # "start"
     /\ num_samples >= n_fft /\ n_fft >= 1 /\ hop_length >= 1
     /\ ~WindowFails(DefaultHannW(hann_w, n_fft), n_fft))
    => /\ pc # "error"
       /\ D_shape[1] = n_fft \div 2 + 1
       /\ D_shape[2] = (num_samples - n_fft) \div hop_length + 1
       /\ \A k \in 1..Len(frames) :
            /\ frames[k][1] = (k - 1) * hop_length
            /\ frames[k][2] = (k - 1) * hop_length + n_fft
            /\ frames[k][2] <= num_samples
       /\ pc = "done" => Len(frames) = D_shape[2]

\* stft returned several frames and dropped trailing samples
C1_Witness ==
    /\ fn = "stft" /\ pc = "done" /\ num_samples >= n_fft
    /\ Len(frames) >= 2
    /\ frames[Len(frames)][2] < num_samples

\* C7: stft never returns a matrix when the signal is shorter than n_fft
\* (hop >= 1); it ends in an error instead.
C7_ShortSignalRaises ==
    (fn = "stft" /\ num_samples < n_fft /\ hop_length >= 1) => pc # "done"

\* C10: istft applied to stft's matrix with the same hop and the default
\* n_fft uses frame length n_fft and returns a signal of length
\* n_fft + (T-1)*hop, which is at most N and more than N - hop.
C10_RoundTripLength ==
    (/\ fn = "istft" /\ pc \in {"done", "error"}
     /\ num_samples >= n_fft /\ hop_length >= 1 /\ ist_hop = hop_length)
    => /\ pc = "done"
       /\ ist_n_fft = n_fft
       /\ x_length = n_fft + (D_shape[2] - 1) * hop_length
       /\ x_length <= num_samples
       /\ x_length > num_samples - hop_length

\* ========================================================== feature_sync
InRange(f, t) == \A k \in 1..Len(f) : f[k] \in 0..t

\* C2: for T >= 1 and boundaries in [0, T], the segments aggregated are
\* consecutive, non-empty, start at 0, end at T, and every column 0..T-1
\* lies in exactly one of them.
C2_SegmentsPartitionColumns ==
    (fn = "feature_sync" /\ pc = "done" /\ T >= 1 /\ InRange(F_in, T))
    => /\ Len(segs) >= 1
       /\ segs[1][1] = 0
       /\ segs[Len(segs)][2] = T
       /\ \A k \in 1..Len(segs) : segs[k][1] < segs[k][2]
       /\ \A k \in 1..(Len(segs) - 1) : segs[k][2] = segs[k + 1][1]
       /\ \A c \in 0..(T - 1) :
            Cardinality({k \in 1..Len(segs) :
                c \in SegmentColumns(segs[k][1], segs[k][2], T)}) = 1

\* unsorted boundaries with a duplicate
C2_Witness ==
    /\ fn = "feature_sync" /\ pc = "done" /\ T >= 2 /\ InRange(F_in, T)
    /\ Len(F_in) = 3 /\ F_in[1] > F_in[2] /\ F_in[2] = F_in[3]
    /\ Len(segs) = 3

\* C3 as stated: the output has exactly |F| + 1 columns.
C3_ColumnsAreLenPlusOne ==
    (fn = "feature_sync" /\ pc = "done" /\ T >= 1 /\ InRange(F_in, T))
    => D_shape[2] = Len(F_in) + 1

\* C3 amended: the output has one column more than there are distinct
\* boundaries strictly between 0 and T, which is at most |F| + 1.
C3_ColumnsAreDistinctInteriorPlusOne ==
    (fn = "feature_sync" /\ pc = "done" /\ T >= 1 /\ InRange(F_in, T))
    => /\ D_shape[2] = Cardinality(Range(F_in) \ {0, T}) + 1
       /\ D_shape[2] <= Len(F_in) + 1
       /\ D_shape[2] = Len(segs)

\* a boundary that is repeated, or equal to 0 or T, adds no column
C3_Witness ==
    /\ fn = "feature_sync" /\ pc = "done" /\ T >= 1 /\ InRange(F_in, T)
    /\ Len(F_in) >= 2
    /\ D_shape[2] < Len(F_in) + 1

\* ============================================================== localmax
\* C4: index k is marked exactly when x[k] is strictly above its left
\* neighbour and at least its right neighbour, the first element being its
\* own left neighbour and the last its own right neighbour; index 0 is
\* never marked.
C4_LocalmaxRule ==
    (fn = "localmax" /\ pc # "start" /\ x # <<>>)
    => /\ pc = "done"
       /\ Len(out) = Len(x)
       /\ \A k \in 1..Len(x) :
            out[k] <=> /\ x[k] > (IF k = 1 THEN x[1] ELSE x[k - 1])
                       /\ x[k] >= (IF k = Len(x) THEN x[k] ELSE x[k + 1])
       /\ ~out[1]

\* an interior peak and a firing right edge
C4_Witness ==
    /\ fn = "localmax" /\ pc = "done" /\ Len(x) = 3
    /\ \E k \in 2..3 : out[k]
    /\ \E k \in 2..3 : ~out[k]

AllEqual(s) == \A j, k \in 1..Len(s) : s[j] = s[k]

\* C5 as stated: on an all-equal sequence the last index is marked and
\* every other index is not.
C5_AllEqualMarksLast ==
    (fn = "localmax" /\ pc = "done" /\ AllEqual(x))
    => /\ out[Len(x)]
       /\ \A k \in 1..(Len(x) - 1) : ~out[k]

\* C5 amended: on an all-equal sequence no index is marked, the last
\* included; the last index is marked exactly when it is strictly above
\* the element before it.
C5_AllEqualMarksNone ==
    (fn = "localmax" /\ pc = "done")
    => /\ AllEqual(x) => \A k \in 1..Len(x) : ~out[k]
       /\ out[Len(x)] <=> (Len(x) >= 2 /\ x[Len(x)] > x[Len(x) - 1])

\* an all-equal sequence of several elements
C5_Witness ==
    /\ fn = "localmax" /\ pc = "done" /\ Len(x) >= 2 /\ AllEqual(x)

LagSum(s, k) ==
    SumTo([j \in 1..(Len(s) - k) |-> s[j] * s[j + k]], Len(s) - k)

\* C8: the output has length n (min(n, max_size) when max_size is given),
\* and its element at lag k is the sum of x[j]*x[j+k]; lag 0 is the sum
\* of squares.
C8_AutocorrelateLags ==
    (fn = "autocorrelate" /\ pc = "done")
    => /\ Len(out) = IF max_size = None THEN Len(x)
                     ELSE Min(Len(x), max_size)
       /\ \A k \in 0..(Len(out) - 1) : out[k + 1] = LagSum(x, k)

\* autocorrelate([1,2,3]) truncated, lag 0 is 14
C8_Witness ==
    /\ fn = "autocorrelate" /\ pc = "done"
    /\ x = <<1, 2, 3>> /\ max_size = 2
    /\ out = <<14, 8>>

\* ================================================================= melfb
\* C9 as stated: melfb returns nfilts rows and floor(nfft/2) + 1 columns.
C9_MelfbHasKColumns ==
    (fn = "melfb" /\ pc = "done")
    => M_shape = <<nfilts, n_fft \div 2 + 1>>

\* C9 amended: melfb returns nfilts rows and nfft columns, of which only
\* the first floor(nfft/2) + 1 are assigned; the matrix melspectrogram
\* multiplies with has floor(nfft/2) + 1 columns, after its own trimming.
C9_MelfbHasNfftColumns ==
    /\ (fn = "melfb" /\ pc = "done")
       => /\ M_shape = <<nfilts, n_fft>>
          /\ nfilts >= 1 => wts_cols = 0..(n_fft \div 2)
    /\ (fn = "melspectrogram" /\ pc = "done")
       => /\ M_shape = <<nfilts, n_fft \div 2 + 1>>
          /\ D_shape = <<nfilts, n_frames>>

\* a filterbank wider than the number of non-negative frequency bins
C9_Witness ==
    /\ fn = "melfb" /\ pc = "done" /\ nfilts >= 1
    /\ M_shape[2] > n_fft \div 2 + 1

====
